---- MODULE Spec2Model ----
(***************************************************************************)
(* A model of the notebook rdkit_intro.ipynb.                              *)
(*                                                                         *)
(* Four parts of the notebook are modelled, each with a specification of   *)
(* its own over the same variables:                                        *)
(*   SpecSweep  the parameter sweep of section 3 (cell "results = []")     *)
(*   SpecCond   the feature conditioning of section 2 and of section 4     *)
(*   SpecFP     compute_morgan_fingerprints and                            *)
(*              MorganFingerprintTransformer                               *)
(*   SpecSplit  the sampling and splitting of the records of section 3     *)
(* The chemistry and learning libraries are modelled by what their calls   *)
(* return or raise; tables are modelled by their row counts and by the     *)
(* number of rows that make a library call raise.                          *)
(***************************************************************************)
EXTENDS Integers, Sequences, FiniteSets, TLC

VARIABLES
    \* ---- section 3: the sweep cell ----
    pc,          \* position in the sweep cell
    exc,         \* the exception that ended the cell, "none" while it runs
    li, si, i,   \* loop state: position of l in lengths, of s in sizes; i
    results,     \* the list of result records
    subset,      \* train_data.sample(s) of the current run
    fingerprint, \* the pipeline's MorganFingerprintTransformer: length, radius
    knn,         \* the pipeline's KNeighborsRegressor: what it was fit on
    y_pred,      \* the notebook's global y_pred
    train_data, test_data,
    nDraws, nFits, nPredicts,  \* calls made so far: sample, model.fit, model.predict
    \* ---- sections 2 and 4: feature conditioning ----
    section,     \* "descriptor" (section 2) or "assignment" (section 4)
    cpc,         \* the next cell of the conditioning to run
    raw,         \* calc.pandas(data['mol']) as computed
    desc,        \* the descriptor table, overwritten cell by cell
    zero_std_cols, missing_values,
    feats,       \* scaler.fit_transform(desc)
    desc_index,  \* the index of desc: the record of each of its rows
    \* ---- section 3: fingerprints ----
    m,           \* a MorganFingerprintTransformer: length, radius
    call,        \* the last call made and its arguments
    ret,         \* what the last call returned, or the exception it raised
    \* ---- section 3: the records behind data, train_data, test_data, subset ----
    spc,          \* the next of the cells that sample and split the data
    sexc,         \* the exception one of them raised, "none" otherwise
    data_index,   \* the index (file row numbers) of data, in row order
    train_index, test_index,   \* of train_data and test_data
    subset_index, \* of the last train_data.sample(s)
    \* ---- section 2: what is fit on what ----
    fits,         \* per estimator, the records its last fit saw
    parts,        \* train_data, test_data, train_desc, test_desc of section 2
    predicted,    \* the prediction columns added to test_data
    r2            \* the last r2_score call of the parity plot

sweepVars == <<pc, exc, li, si, i, results, subset, fingerprint, knn, y_pred,
               train_data, test_data, nDraws, nFits, nPredicts>>
condVars  == <<section, cpc, raw, desc, zero_std_cols, missing_values, feats,
               desc_index>>
fpVars    == <<m, call, ret>>
splitVars == <<spc, sexc, data_index, train_index, test_index, subset_index>>
fitVars   == <<fits, parts, predicted, r2>>
vars      == <<sweepVars, condVars, fpVars, splitVars, fitVars>>

--------------------------------------------------------------------------
(* Bounds of the model *)

\* rows of a partition that hold an unparsable SMILES, or a NaN bandgap
MaxBad == 1

\* the descriptor table: molecules (rows), descriptors (columns), and the
\* largest descriptor value
NRows == 2
NCols == 1
MaxVal == 1

\* fingerprints: the largest length and radius asked for, and the longest
\* list of SMILES strings handed to transform
MaxLength == 4
MaxRadius == 2
MaxX == 2

\* sampling and splitting: the file holds up to MaxFiles * 5000 records, and a
\* shuffle is position j -> a * j + b with a up to MaxMult and MaxShift + 1
\* choices of b
MaxFiles == 2
MaxMult == 3
MaxShift == 1

--------------------------------------------------------------------------
(* Section 3: the data and the pipeline *)

\* data = pd.read_json(...).sample(5000)
NumSampled == 5000

\* train_test_split(data): test_size defaults to 0.25,
\* n_test = ceil(0.25 * n), n_train = n - n_test
TestSize(n)  == (n + 3) \div 4
TrainSize(n) == n - TestSize(n)

lengths == <<32, 64, 128>>
sizes   == <<3, 10, 30, 100, 300, 1000, 3000>>
\* for i in range(16)
Repetitions == 16

\* MorganFingerprintTransformer.__init__ defaults
DefaultLength == 256
DefaultRadius == 4

\* KNeighborsRegressor(n_neighbors=2, ...) of the pipeline
n_neighbors == 2

l == lengths[li]
s == sizes[si]

\* The number of runs that come before run (a, b, c) in loop order.
RunIndex(a, b, c) == ((a - 1) * Len(sizes) + (b - 1)) * Repetitions + c

NoSubset == [n |-> 0, bad |-> 0, nan |-> 0, draw |-> 0]
Unfitted == [fitted |-> FALSE, draw |-> 0, n |-> 0, length |-> 0, radius |-> 0]

\* y_pred = krr.predict(test_fng): the prediction left in the global y_pred by
\* the cells before the sweep (krr fit on the whole train partition, length 256)
KrrPrediction ==
    [model |-> "krr", draw |-> 0, n |-> TrainSize(NumSampled),
     length |-> DefaultLength, radius |-> DefaultRadius, X |-> "test_data"]

\* How many of the rows of a sample of k rows, drawn without replacement from
\* n rows of which b are marked, can be marked.
Marked(k, n, b) == {j \in 0..b : j <= k /\ k - j <= n - b}

\* Raise as a loop body wrapped in try/except/continue would behave: the
\* exception is noted and the run is started again.
Raise_retry(e) ==
    /\ exc' = e
    /\ pc' = "sample"

\* An exception leaves the cell: nothing after the raising statement runs.
Raise(e) ==
    /\ exc' = e
    /\ pc' = "aborted"

\* SetParams with the assignment of the length left out.
SetParams_noop ==
    /\ pc = "set_params"
    /\ pc' = "sample"
    /\ UNCHANGED <<exc, li, si, i, results, subset, fingerprint, knn, y_pred,
                   train_data, test_data, nDraws, nFits, nPredicts>>

\* model.set_params(fingerprint__length=l)
SetParams ==
    /\ pc = "set_params"
    /\ fingerprint' = [fingerprint EXCEPT !.length = l]
    /\ pc' = "sample"
    /\ UNCHANGED <<exc, li, si, i, results, subset, knn, y_pred, train_data,
                   test_data, nDraws, nFits, nPredicts>>

\* subset = train_data.sample(s)
Sample ==
    /\ pc = "sample"
    /\ IF s > train_data.n
       THEN \* ValueError: cannot take a larger sample than population
            /\ Raise("ValueError")
            /\ UNCHANGED <<subset, nDraws>>
       ELSE /\ \E b \in Marked(s, train_data.n, train_data.bad) :
               \E y \in Marked(s, train_data.n, train_data.nan) :
                  subset' = [n |-> s, bad |-> b, nan |-> y, draw |-> nDraws + 1]
            /\ nDraws' = nDraws + 1
            /\ pc' = "fit"
            /\ exc' = exc
    /\ UNCHANGED <<li, si, i, results, fingerprint, knn, y_pred, train_data,
                   test_data, nFits, nPredicts>>

\* NextRun with the repetition loop left by a statement that ends the cell.
NextRun_break ==
    IF i + 1 < Repetitions
    THEN [li |-> li, si |-> si, i |-> i + 1, pc |-> "sample"]
    ELSE [li |-> li, si |-> si, i |-> i, pc |-> "to_frame"]

\* NextRun with the loop over sizes outside the loop over lengths.
NextRun_swapped ==
    IF i + 1 < Repetitions
    THEN [li |-> li, si |-> si, i |-> i + 1, pc |-> "sample"]
    ELSE IF li < Len(lengths)
    THEN [li |-> li + 1, si |-> si, i |-> 0, pc |-> "set_params"]
    ELSE IF si < Len(sizes)
    THEN [li |-> 1, si |-> si + 1, i |-> 0, pc |-> "set_params"]
    ELSE [li |-> li, si |-> si, i |-> i, pc |-> "to_frame"]

\* The next position of the three nested loops after run (li, si, i).
NextRun ==
    IF i + 1 < Repetitions
    THEN [li |-> li, si |-> si, i |-> i + 1, pc |-> "sample"]
    ELSE IF si < Len(sizes)
    THEN [li |-> li, si |-> si + 1, i |-> 0, pc |-> "sample"]
    ELSE IF li < Len(lengths)
    THEN [li |-> li + 1, si |-> 1, i |-> 0, pc |-> "set_params"]
    ELSE [li |-> li, si |-> si, i |-> i, pc |-> "to_frame"]

\* MorganFingerprintTransformer.transform over a table's smiles_0 column:
\* compute_morgan_fingerprints raises on a SMILES that does not parse
\* (GetMorganFingerprintAsBitVect is handed None), np.vstack on no rows.
TransformRaises(tbl) == tbl.bad > 0 \/ tbl.n = 0

\* Fit as it would be if the regressor were fit only while still unfitted.
Fit_once ==
    /\ pc = "fit"
    /\ nFits' = nFits + 1
    /\ knn' = IF knn.fitted THEN knn
              ELSE [fitted |-> TRUE, draw |-> subset.draw, n |-> subset.n,
                    length |-> fingerprint.length, radius |-> fingerprint.radius]
    /\ pc' = "predict"
    /\ UNCHANGED <<exc, li, si, i, results, subset, fingerprint, y_pred,
                   train_data, test_data, nDraws, nPredicts>>

\* model.fit(subset['smiles_0'], subset['bandgap']):
\* Pipeline.fit = fingerprint.fit(X).transform(X), then knn.fit(Xt, y)
Fit ==
    /\ pc = "fit"
    /\ nFits' = nFits + 1
    /\ IF TransformRaises(subset)
       THEN Raise("ArgumentError") /\ knn' = knn
       ELSE IF subset.nan > 0
       THEN \* knn.fit validates y: "Input y contains NaN"
            Raise("ValueError") /\ knn' = knn
       ELSE /\ knn' = [fitted |-> TRUE, draw |-> subset.draw, n |-> subset.n,
                       length |-> fingerprint.length,
                       radius |-> fingerprint.radius]
            /\ pc' = "predict"
            /\ exc' = exc
    /\ UNCHANGED <<li, si, i, results, subset, fingerprint, y_pred, train_data,
                   test_data, nDraws, nPredicts>>

\* y_pred = model.predict(test_data['smiles_0']):
\* Pipeline.predict = fingerprint.transform(X), then knn.predict(Xt)
Predict ==
    /\ pc = "predict"
    /\ nPredicts' = nPredicts + 1
    /\ IF TransformRaises(test_data)
       THEN Raise("ArgumentError") /\ y_pred' = y_pred
       ELSE IF ~knn.fitted
       THEN Raise("NotFittedError") /\ y_pred' = y_pred
       ELSE IF fingerprint.length # knn.length \/ n_neighbors > knn.n
       THEN Raise("ValueError") /\ y_pred' = y_pred
       ELSE /\ y_pred' = [model |-> "pipeline", draw |-> knn.draw, n |-> knn.n,
                          length |-> fingerprint.length,
                          radius |-> fingerprint.radius, X |-> "test_data"]
            /\ pc' = "append"
            /\ exc' = exc
    /\ UNCHANGED <<li, si, i, results, subset, fingerprint, knn, train_data,
                   test_data, nDraws, nFits>>

\* r2_score(y_true, y_pred) and mean_absolute_error(y_true, y_pred), kept as
\* the call made: the metric and its two arguments in order.
Score(metric, y_true, pred) == [metric |-> metric, y_true |-> y_true, y_pred |-> pred]

\* results.append({...}), then the loops move on
AppendResult ==
    /\ pc = "append"
    /\ IF test_data.nan > 0
       THEN \* r2_score validates its inputs: "Input contains NaN"
            /\ Raise("ValueError")
            /\ UNCHANGED <<results, li, si, i>>
       ELSE /\ results' = Append(results,
                   [length |-> l, train_size |-> s, iteration |-> i,
                    r2_score |-> Score("r2_score", "test_data.bandgap", y_pred),
                    mae |-> Score("mean_absolute_error", "test_data.bandgap", y_pred)])
            /\ li' = NextRun.li
            /\ si' = NextRun.si
            /\ i' = NextRun.i
            /\ pc' = NextRun.pc
            /\ exc' = exc
    /\ UNCHANGED <<subset, fingerprint, knn, y_pred, train_data, test_data,
                   nDraws, nFits, nPredicts>>

\* results = pd.DataFrame(results): the same rows in the same order
ToFrame ==
    /\ pc = "to_frame"
    /\ pc' = "done"
    /\ UNCHANGED <<exc, li, si, i, results, subset, fingerprint, knn, y_pred,
                   train_data, test_data, nDraws, nFits, nPredicts>>

\* results = [] and the entry into the loops
Start ==
    /\ pc = "start"
    /\ results' = <<>>
    /\ li' = 1 /\ si' = 1 /\ i' = 0
    /\ pc' = "set_params"
    /\ UNCHANGED <<exc, subset, fingerprint, knn, y_pred, train_data, test_data,
                   nDraws, nFits, nPredicts>>

\* The state when the sweep cell is started: data sampled and split, the
\* pipeline built with the transformer's defaults and not yet fit.
InitSweepVars ==
    /\ pc = "start"
    /\ exc = "none"
    /\ li = 1 /\ si = 1 /\ i = 0
    /\ results = <<>>
    /\ subset = NoSubset
    /\ fingerprint = [length |-> DefaultLength, radius |-> DefaultRadius]
    /\ knn = Unfitted
    /\ \E tb \in 0..MaxBad, ty \in 0..MaxBad :
          train_data = [n |-> TrainSize(NumSampled), bad |-> tb, nan |-> ty]
    /\ \E tb \in 0..MaxBad, ty \in 0..MaxBad :
          test_data = [n |-> TestSize(NumSampled), bad |-> tb, nan |-> ty]
    \* the cells before the sweep leave krr's prediction in y_pred, unless
    \* one of them raised
    /\ y_pred = IF train_data.bad = 0 /\ train_data.nan = 0 /\ test_data.bad = 0
                THEN KrrPrediction
                ELSE [model |-> "undefined", draw |-> 0, n |-> 0, length |-> 0,
                      radius |-> 0, X |-> "undefined"]
    /\ nDraws = 0 /\ nFits = 0 /\ nPredicts = 0

IdleSweepVars ==
    /\ pc = "idle"
    /\ exc = "none"
    /\ li = 1 /\ si = 1 /\ i = 0
    /\ results = <<>>
    /\ subset = NoSubset
    /\ fingerprint = [length |-> DefaultLength, radius |-> DefaultRadius]
    /\ knn = Unfitted
    /\ train_data = [n |-> 0, bad |-> 0, nan |-> 0]
    /\ test_data = [n |-> 0, bad |-> 0, nan |-> 0]
    /\ y_pred = KrrPrediction
    /\ nDraws = 0 /\ nFits = 0 /\ nPredicts = 0

IdleCondVars ==
    /\ section = "none"
    /\ cpc = "idle"
    /\ raw = <<>>
    /\ desc = <<>>
    /\ zero_std_cols = {}
    /\ missing_values = {}
    /\ feats = <<>>
    /\ desc_index = <<>>

IdleFPVars ==
    /\ m = [id |-> "m", length |-> DefaultLength, radius |-> DefaultRadius]
    /\ call = [op |-> "none", smiles |-> "", X |-> <<>>, length |-> 0, radius |-> 0]
    /\ ret = [kind |-> "none", val |-> <<>>, exc |-> "none"]

--------------------------------------------------------------------------
(* Sections 2 and 4: feature conditioning *)

\* The entries of a descriptor table: a number, a boolean (v is 0 or 1), a
\* float NaN, or one of mordred's Missing / Error objects.
Num(v)  == [k |-> "num", v |-> v]
Bool(v) == [k |-> "bool", v |-> v]
NaN     == [k |-> "nan", v |-> 0]
Missing == [k |-> "missing", v |-> 0]

Nums  == {Num(v) : v \in 0..MaxVal}
Bools == {Bool(0), Bool(1)}

ColumnsOf(entries) == [1..NRows -> entries]

\* The columns calc.pandas can hand back, with the dtype pandas infers: a
\* column is stored as object exactly when a descriptor failed on some
\* molecule and left a Missing / Error object in it.
RawColumns ==
    {[dtype |-> "int64", vals |-> c] : c \in ColumnsOf(Nums)}
    \cup {[dtype |-> "float64", vals |-> c] : c \in ColumnsOf(Nums \cup {NaN})}
    \cup {[dtype |-> "bool", vals |-> c] : c \in ColumnsOf(Bools)}
    \cup {[dtype |-> "object", vals |-> c] :
             c \in {d \in ColumnsOf(Nums \cup {Missing}) \cup ColumnsOf(Bools \cup {Missing}) :
                      \E r \in 1..NRows : d[r] = Missing}}

RECURSIVE SumOver(_, _)
SumOver(f, n) == IF n = 0 THEN 0 ELSE f[n] + SumOver(f, n - 1)

\* Series.isnull(): NaN (and None) only; an object that is not NaN is not null
IsNull(e) == e.k = "nan"

\* stats.loc['std'] == 0 for a numeric column: describe() gives the sample
\* standard deviation (ddof = 1) of the entries that are not NaN, NaN when
\* fewer than two are left; it is 0 when n * sum(x^2) = sum(x)^2.
StdIsZero(vals) ==
    LET present == {r \in 1..NRows : ~IsNull(vals[r])}
        x  == [r \in 1..NRows |-> IF r \in present THEN vals[r].v ELSE 0]
        xx == [r \in 1..NRows |-> x[r] * x[r]]
        n  == Cardinality(present)
    IN  n >= 2 /\ n * SumOver(xx, NRows) = SumOver(x, NRows) * SumOver(x, NRows)

\* numeric_cols = desc.select_dtypes(include=['int64', 'float64']).columns
NumericCols(table) ==
    {c \in 1..Len(table) : table[c].dtype \in {"int64", "float64"}}

\* zero_std_cols = stats.columns[stats.loc['std'] == 0], as column names
ZeroStd ==
    /\ cpc = "zero_std"
    /\ zero_std_cols' = {desc[c].name : c \in {d \in NumericCols(desc) : StdIsZero(desc[d].vals)}}
    /\ cpc' = "drop"
    /\ UNCHANGED <<desc_index, section, raw, desc, missing_values, feats>>

\* The columns of a table whose position is in keep, in the table's order.
RECURSIVE Select(_, _)
Select(table, keep) ==
    IF table = <<>> THEN <<>>
    ELSE LET n == Len(table)
             front == Select(SubSeq(table, 1, n - 1), keep)
         IN  IF n \in keep THEN Append(front, table[n]) ELSE front

\* desc.drop(columns=zero_std_cols, inplace=True)
Drop ==
    /\ cpc = "drop"
    /\ desc' = Select(desc, {c \in 1..Len(desc) : desc[c].name \notin zero_std_cols})
    /\ cpc' = "coerce"
    /\ UNCHANGED <<desc_index, section, raw, zero_std_cols, missing_values, feats>>

\* pd.to_numeric with errors='ignore': what is no number is left in place.
ToNumeric_ignore(e) == e

\* pd.to_numeric(..., errors='coerce') on one entry: what is no number
\* becomes NaN; numbers and booleans are left as they are
ToNumeric(e) == IF e.k = "missing" THEN NaN ELSE e

\* The dtype of a column once pd.to_numeric has made it numeric.
NumericDtype(col) ==
    IF col.dtype = "object" THEN "float64" ELSE col.dtype

\* for c in desc.columns: desc[c] = pd.to_numeric(desc[c], errors='coerce')
Coerce ==
    /\ cpc = "coerce"
    /\ desc' = [c \in 1..Len(desc) |->
                  LET vals == [r \in 1..NRows |-> ToNumeric(desc[c].vals[r])]
                  IN  [desc[c] EXCEPT !.vals = vals,
                                      !.dtype = NumericDtype(desc[c])]]
    /\ cpc' = "missing"
    /\ UNCHANGED <<desc_index, section, raw, zero_std_cols, missing_values, feats>>

\* float(e), as astype('float') applies it: True is 1.0, False 0.0, and
\* mordred's Missing / Error objects convert to NaN (their __float__)
ToFloat(e) ==
    IF e.k = "missing" THEN NaN
    ELSE IF e.k = "bool" THEN Num(e.v)
    ELSE e

\* desc = desc.astype('float')
AsFloat ==
    /\ cpc = "astype"
    /\ desc' = [c \in 1..Len(desc) |->
                  [desc[c] EXCEPT !.vals = [r \in 1..NRows |-> ToFloat(desc[c].vals[r])],
                                  !.dtype = "float64"]]
    /\ cpc' = "missing"
    /\ UNCHANGED <<desc_index, section, raw, zero_std_cols, missing_values, feats>>

\* missing_values = desc.isnull().any(): per column name, whether any entry
\* is null
MissingValues ==
    /\ cpc = "missing"
    /\ missing_values' = {desc[c].name : c \in {d \in 1..Len(desc) :
                              \E r \in 1..NRows : IsNull(desc[d].vals[r])}}
    /\ cpc' = "filter"
    /\ UNCHANGED <<desc_index, section, raw, desc, zero_std_cols, feats>>

\* desc = desc.dropna(): the rows that hold a missing value are removed
\* instead of the columns.
Filter_dropna ==
    /\ cpc = "filter"
    /\ LET keep == {r \in 1..Len(desc_index) :
                       \A c \in 1..Len(desc) : ~IsNull(desc[c].vals[r])}
       IN  /\ desc' = [c \in 1..Len(desc) |->
                          [desc[c] EXCEPT !.vals = Select(desc[c].vals, keep)]]
           /\ desc_index' = Select(desc_index, keep)
    /\ cpc' = "scale"
    /\ UNCHANGED <<section, raw, zero_std_cols, missing_values, feats>>

\* desc = desc.loc[:, ~missing_values]
Filter ==
    /\ cpc = "filter"
    /\ desc' = Select(desc, {c \in 1..Len(desc) : desc[c].name \notin missing_values})
    /\ cpc' = "scale"
    /\ UNCHANGED <<desc_index, section, raw, zero_std_cols, missing_values, feats>>

\* An estimator after fit(X, y): the records of the rows of X and of y it was
\* fit on (y is empty for a scaler or a PCA), and its n_components (0 where
\* there is none).
Fitted(X, y, n_components) ==
    [fitted |-> TRUE, X |-> X, y |-> y, n_components |-> n_components]

\* StandardScaler().fit_transform on one column of n entries x: the entries
\* become (x - mean) / scale, with scale the population standard deviation,
\* or 1 when that is 0.  Kept exactly: entry r is num[r] / sqrt(den2), with
\* num[r] = n * x[r] - sum(x) and den2 = n^2 * scale^2.
Standardize(vals) ==
    LET x     == [r \in 1..NRows |-> vals[r].v]
        xx    == [r \in 1..NRows |-> x[r] * x[r]]
        n     == NRows
        sum   == SumOver(x, n)
        n2var == n * SumOver(xx, n) - sum * sum
    IN  [num  |-> [r \in 1..NRows |-> n * x[r] - sum],
         den2 |-> IF n2var = 0 THEN n * n ELSE n2var]

\* scaler = StandardScaler(); feats = scaler.fit_transform(desc)
Scale ==
    /\ cpc = "scale"
    /\ feats' = [c \in 1..Len(desc) |->
                   [name |-> desc[c].name, z |-> Standardize(desc[c].vals)]]
    /\ fits' = [fits EXCEPT !.scaler = Fitted(desc_index, <<>>, 0)]
    /\ cpc' = "scaled"
    /\ UNCHANGED <<desc_index, section, raw, desc, zero_std_cols, missing_values>>
    /\ UNCHANGED <<parts, predicted, r2>>

\* data = pd.read_json(...).head(1000): the records are labelled 0, 1, ... in
\* the order loaded, and calc.pandas(data['mol']) has one row per record in
\* that order.
DataIndex == [r \in 1..NRows |-> r - 1]

\* An estimator before fit.
NotFit == [fitted |-> FALSE, X |-> <<>>, y |-> <<>>, n_components |-> 0]

\* PCA(n_components=16) of the pipeline, set_params(pca__n_components=8)
PipelineNComponents == 16
ReducedNComponents  == 8

\* A column of test_data: its name and the records of its rows.
Column(name, rows) == [kind |-> name, rows |-> rows]
NoArg == Column("none", <<>>)

\* The estimators as constructed, nothing split, predicted or scored.
InitFitVars ==
    /\ fits = [scaler |-> NotFit, pca |-> NotFit, lasso |-> NotFit,
               model |-> [NotFit EXCEPT !.n_components = PipelineNComponents]]
    /\ parts = [train_data |-> <<>>, test_data |-> <<>>,
                train_desc |-> <<>>, test_desc |-> <<>>]
    /\ predicted = <<>>
    /\ r2 = Score("none", NoArg, NoArg)

\* pca = PCA().fit(feats): feats has the rows the scaler was fit on.
\* (Without a column left the scaler raises, and the section stops.)
FitPCA ==
    /\ section = "descriptor" /\ cpc = "scaled" /\ feats # <<>>
    /\ fits' = [fits EXCEPT !.pca = Fitted(fits.scaler.X, <<>>, 0)]
    /\ cpc' = "pca16"
    /\ UNCHANGED <<desc_index, section, raw, desc, zero_std_cols, missing_values,
                   feats, parts, predicted, r2>>

\* pca.n_components = 16; pca_feats = pca.fit_transform(feats)
RefitPCA ==
    /\ cpc = "pca16"
    /\ fits' = [fits EXCEPT !.pca = Fitted(fits.scaler.X, <<>>, PipelineNComponents)]
    /\ cpc' = "lasso"
    /\ UNCHANGED <<desc_index, section, raw, desc, zero_std_cols, missing_values,
                   feats, parts, predicted, r2>>

\* lasso = LassoCV().fit(pca_feats, data['bandgap'])
FitLasso ==
    /\ cpc = "lasso"
    /\ fits' = [fits EXCEPT !.lasso = Fitted(fits.pca.X, DataIndex, 0)]
    /\ cpc' = "split"
    /\ UNCHANGED <<desc_index, section, raw, desc, zero_std_cols, missing_values,
                   feats, parts, predicted, r2>>

\* train_test_split(..., test_size=0.1): n_test = ceil(0.1 * n)
DescTestSize(n) == (n + 9) \div 10

\* The orders a shuffle can put n rows in.
Orders(n) ==
    {p \in [1..n -> 1..n] : \A j, k \in 1..n : p[j] = p[k] => j = k}

\* The rows of a table (given by its index) at positions p[from], ..., p[to].
Take(index, p, from, to) == [j \in 1..(to - from + 1) |-> index[p[from + j - 1]]]

\* train_data, test_data, train_desc, test_desc =
\*     train_test_split(data, desc, test_size=0.1)
\* One shuffle of the positions cuts both tables; tables of different lengths
\* make it raise.
TrainTestSplit ==
    /\ cpc = "split"
    /\ IF Len(desc_index) # Len(DataIndex)
       THEN /\ cpc' = "ValueError"
            /\ UNCHANGED parts
       ELSE /\ \E p \in Orders(NRows) :
                 LET k == DescTestSize(NRows)
                 IN  parts' = [test_data  |-> Take(DataIndex, p, 1, k),
                               train_data |-> Take(DataIndex, p, k + 1, NRows),
                               test_desc  |-> Take(desc_index, p, 1, k),
                               train_desc |-> Take(desc_index, p, k + 1, NRows)]
            /\ cpc' = "fit"
    /\ UNCHANGED <<desc_index, section, raw, desc, zero_std_cols, missing_values,
                   feats, fits, predicted, r2>>

\* A pipeline fit on every record: model.fit(desc, data['bandgap'])
PipelineFitted_all ==
    Fitted(desc_index, DataIndex, fits.model.n_components)

\* model.fit(train_desc, train_data['bandgap']): the scaler, the PCA and the
\* LassoCV of the pipeline are all fit on these rows.
PipelineFitted ==
    Fitted(parts.train_desc, parts.train_data, fits.model.n_components)

\* model.predict(test_desc), as a column of test_data
Prediction(fit, name) ==
    [col |-> Column(name, parts.test_data), X |-> parts.test_desc, model |-> fit]

\* model.fit(train_desc, train_data['bandgap'])
PipelineFit ==
    /\ cpc = "fit"
    /\ fits' = [fits EXCEPT !.model = PipelineFitted]
    /\ cpc' = "predict"
    /\ UNCHANGED <<desc_index, section, raw, desc, zero_std_cols, missing_values,
                   feats, parts, predicted, r2>>

\* model.predict(test_desc); the value is not kept
PipelinePredict ==
    /\ cpc = "predict"
    /\ cpc' = "fit16"
    /\ UNCHANGED <<desc_index, section, raw, desc, zero_std_cols, missing_values,
                   feats, fits, parts, predicted, r2>>

\* test_data['16-ncomp-model'] = model.fit(train_desc, train_data['bandgap'])
\*                                    .predict(test_desc)
FitPredict16 ==
    /\ cpc = "fit16"
    /\ fits' = [fits EXCEPT !.model = PipelineFitted]
    /\ predicted' = Append(predicted, Prediction(PipelineFitted, "16-ncomp-model"))
    /\ cpc' = "set_params"
    /\ UNCHANGED <<desc_index, section, raw, desc, zero_std_cols, missing_values,
                   feats, parts, r2>>

\* model.set_params(pca__n_components=8)
SetNComponents ==
    /\ cpc = "set_params"
    /\ fits' = [fits EXCEPT !.model.n_components = ReducedNComponents]
    /\ cpc' = "fit8"
    /\ UNCHANGED <<desc_index, section, raw, desc, zero_std_cols, missing_values,
                   feats, parts, predicted, r2>>

\* test_data['8-ncomp-model'] = model.fit(train_desc, train_data['bandgap'])
\*                                   .predict(test_desc)
FitPredict8 ==
    /\ cpc = "fit8"
    /\ fits' = [fits EXCEPT !.model = PipelineFitted]
    /\ predicted' = Append(predicted, Prediction(PipelineFitted, "8-ncomp-model"))
    /\ cpc' = "plot8"
    /\ UNCHANGED <<desc_index, section, raw, desc, zero_std_cols, missing_values,
                   feats, parts, r2>>

\* for ax, col in zip(axs, ['8-ncomp-model', '16-ncomp-model']):
\*     r2 = r2_score(test_data[col], test_data['bandgap'])
\* one pass of the loop
ParityPlot ==
    /\ cpc \in {"plot8", "plot16"}
    /\ LET name == IF cpc = "plot8" THEN "8-ncomp-model" ELSE "16-ncomp-model"
       IN  r2' = Score("r2_score", Column(name, parts.test_data),
                                   Column("bandgap", parts.test_data))
    /\ cpc' = IF cpc = "plot8" THEN "plot16" ELSE "done"
    /\ UNCHANGED <<desc_index, section, raw, desc, zero_std_cols, missing_values,
                   feats, fits, parts, predicted>>

\* The tables calc.pandas can have computed: NCols columns, named by position.
RawTables ==
    {[c \in 1..NCols |-> [name |-> c, dtype |-> t[c].dtype, vals |-> t[c].vals]] :
        t \in [1..NCols -> RawColumns]}

InitCondVars ==
    /\ section \in {"descriptor", "assignment"}
    /\ raw \in RawTables
    /\ desc = raw
    /\ cpc = IF section = "descriptor" THEN "zero_std" ELSE "astype"
    /\ zero_std_cols = {}
    /\ missing_values = {}
    /\ feats = <<>>
    /\ desc_index = DataIndex

--------------------------------------------------------------------------
(* Section 3: fingerprints *)

\* Python's None, and a parsed molecule: its atoms, each with its atomic
\* number and its bonds (the atom bonded to and the bond order)
None == [isNone |-> TRUE, atoms |-> <<>>]
Mol(atoms) == [isNone |-> FALSE, atoms |-> atoms]
Atom(z, nbrs) == [z |-> z, nbrs |-> nbrs]
Bond(a, order) == [a |-> a, order |-> order]

\* The SMILES strings handed to the functions: methane, propane and
\* formaldehyde (the notebook's examples), and a string that does not parse.
Smiles == {"C", "CCC", "C=O", "C("}

\* Chem.MolFromSmiles: the molecule, or None (with a logged message, no
\* exception) when the string does not parse
MolFromSmiles(smiles) ==
    CASE smiles = "C"   -> Mol(<<Atom(6, {})>>)
      [] smiles = "CCC" -> Mol(<<Atom(6, {Bond(2, 1)}),
                                 Atom(6, {Bond(1, 1), Bond(3, 1)}),
                                 Atom(6, {Bond(2, 1)})>>)
      [] smiles = "C=O" -> Mol(<<Atom(6, {Bond(2, 2)}), Atom(8, {Bond(1, 2)})>>)
      [] OTHER          -> None

RECURSIVE SumSet(_, _)
SumSet(f, S) ==
    IF S = {} THEN 0
    ELSE LET x == CHOOSE y \in S : TRUE IN f[x] + SumSet(f, S \ {x})

\* The Morgan identifier of the environment of radius k around atom a: the
\* atom's own invariant at radius 0, then a hash of the identifier of radius
\* k - 1 and of those of the neighbours with their bond orders (RDKit hashes
\* to 32 bits; 16 are kept here, the hash being folded to nBits anyway).
RECURSIVE EnvId(_, _, _)
EnvId(mol, a, k) ==
    IF k = 0 THEN mol.atoms[a].z * 16 + Cardinality(mol.atoms[a].nbrs)
    ELSE LET nb == [b \in mol.atoms[a].nbrs |-> b.order * 7 + EnvId(mol, b.a, k - 1)]
         IN  (31 * EnvId(mol, a, k - 1) + SumSet(nb, mol.atoms[a].nbrs) + k) % 65536

\* AllChem.GetMorganFingerprintAsBitVect(mol, radius, nBits): a bit vector of
\* nBits bits, bit (id mod nBits) set for every environment up to the radius
GetMorganFingerprintAsBitVect(mol, radius, nBits) ==
    LET ids  == {EnvId(mol, a, k) : a \in 1..Len(mol.atoms), k \in 0..radius}
        bits == {id % nBits : id \in ids}
    IN  [j \in 1..nBits |-> IF j - 1 \in bits THEN 1 ELSE 0]

\* ConvertToNumpyArray that fills the destination without resizing it.
ConvertToNumpyArray_noresize(fp, arr) == [j \in 1..Len(arr) |-> fp[j]]

\* DataStructs.ConvertToNumpyArray(fp, arr): arr is resized to the number of
\* bits of fp and filled with them
ConvertToNumpyArray(fp, arr) == [j \in 1..Len(fp) |-> fp[j]]

Returned(val) == [kind |-> "array", val |-> val, exc |-> "none"]
Raised(e)     == [kind |-> "raise", val |-> <<>>, exc |-> e]

\* compute_morgan_fingerprints(smiles, fingerprint_length, fingerprint_radius)
compute_morgan_fingerprints(smiles, fingerprint_length, fingerprint_radius) ==
    LET molecule == MolFromSmiles(smiles)
    IN  IF molecule.isNone
        THEN \* GetMorganFingerprintAsBitVect(None, ...): the argument types
             \* do not match the C++ signature
             Raised("ArgumentError")
        ELSE LET bitvect == GetMorganFingerprintAsBitVect(
                                molecule, fingerprint_radius, fingerprint_length)
                 arr == <<0>>   \* np.zeros((1,), dtype=bool)
             IN  Returned(ConvertToNumpyArray(bitvect, arr))

\* transform with the rows stacked in reverse.
transform_reversed(X, length, radius) ==
    LET fing == [j \in 1..Len(X) |-> compute_morgan_fingerprints(X[j], length, radius)]
    IN  IF \E j \in 1..Len(X) : fing[j].kind = "raise"
        THEN Raised("ArgumentError")
        ELSE IF Len(X) = 0 THEN Raised("ValueError")
        ELSE Returned([j \in 1..Len(X) |-> fing[Len(X) + 1 - j].val])

\* MorganFingerprintTransformer.transform(X) of a transformer with the given
\* length and radius: the list comprehension raises with the first row that
\* raises; np.vstack raises on an empty list, else stacks the rows in order
transform(X, length, radius) ==
    LET fing == [j \in 1..Len(X) |-> compute_morgan_fingerprints(X[j], length, radius)]
    IN  IF \E j \in 1..Len(X) : fing[j].kind = "raise"
        THEN Raised("ArgumentError")
        ELSE IF Len(X) = 0
        THEN Raised("ValueError")
        ELSE Returned([j \in 1..Len(X) |-> fing[j].val])

Call(op, smiles, X, length, radius) ==
    [op |-> op, smiles |-> smiles, X |-> X, length |-> length, radius |-> radius]

SmilesLists == UNION {[1..n -> Smiles] : n \in 0..MaxX}

\* a call of compute_morgan_fingerprints, as in the methane example
Compute ==
    /\ \E smiles \in Smiles, length \in 1..MaxLength, radius \in 0..MaxRadius :
          /\ call' = Call("compute", smiles, <<>>, length, radius)
          /\ ret' = compute_morgan_fingerprints(smiles, length, radius)
    /\ m' = m

\* data['mol'] = data['smiles_0'].apply(Chem.MolFromSmiles)
MolColumn ==
    /\ \E X \in SmilesLists :
          /\ call' = Call("mol", "", X, 0, 0)
          /\ ret' = Returned([j \in 1..Len(X) |-> MolFromSmiles(X[j])])
    /\ m' = m

\* m.length = ...
SetLength ==
    /\ \E length \in 1..MaxLength :
          /\ m' = [m EXCEPT !.length = length]
          /\ call' = Call("set_length", "", <<>>, length, 0)
    /\ ret' = [kind |-> "none", val |-> <<>>, exc |-> "none"]

\* m.fit(X): return self; X is not looked at
MFit ==
    /\ call' = Call("fit", "", <<>>, 0, 0)
    /\ ret' = [kind |-> "object", val |-> m.id, exc |-> "none"]
    /\ m' = m

\* m.transform(X)
MTransform ==
    /\ \E X \in SmilesLists :
          /\ call' = Call("transform", "", X, 0, 0)
          /\ ret' = transform(X, m.length, m.radius)
    /\ m' = m

\* m = MorganFingerprintTransformer(length, radius)
InitFPVars ==
    /\ \E length \in 1..MaxLength, radius \in 0..MaxRadius :
          m = [id |-> "m", length |-> length, radius |-> radius]
    /\ call = Call("none", "", <<>>, 0, 0)
    /\ ret = [kind |-> "none", val |-> <<>>, exc |-> "none"]

IdleSplitVars ==
    /\ spc = "idle"
    /\ sexc = "none"
    /\ data_index = <<>>
    /\ train_index = <<>>
    /\ test_index = <<>>
    /\ subset_index = <<>>

-----------------------------------------------------------------------------
(* Section 3: which records are sampled, split and drawn *)

RECURSIVE GCD(_, _)
GCD(a, b) == IF b = 0 THEN a ELSE GCD(b, a % b)

\* The shuffles of n positions that are modelled: position j of the shuffled
\* rows holds row a * (j - 1) + b mod n, a permutation of 1..n because a is
\* coprime to n.
Mults(n)   == {a \in 1..MaxMult : GCD(a, n) = 1}
Offsets(n) == {k * (n \div (MaxShift + 1)) : k \in 0..MaxShift}
Shuffle(n, a, b, j) == ((a * (j - 1) + b) % n) + 1

\* The numbers of records qm9.json may hold; one of them is too few.
FileSizes == {NumSampled - 1} \cup {NumSampled * k : k \in 1..MaxFiles}

\* DataFrame.sample(n, replace=True): a row may be drawn more than once.
SampleRows_replace(index, n, a, b) ==
    LET len == Len(index)
    IN  [j \in 1..n |-> index[Shuffle(len, a, b, ((j - 1) \div 2) + 1)]]

\* DataFrame.sample(n): n rows drawn without replacement, in the order drawn.
SampleRows(index, n, a, b) ==
    LET len == Len(index)
    IN  [j \in 1..n |-> index[Shuffle(len, a, b, j)]]

\* read_json gives the records the index 0..n-1; sample(5000) raises when the
\* file holds fewer.
Load ==
    /\ spc = "load" /\ sexc = "none"
    /\ \E n \in FileSizes :
          IF NumSampled > n
             THEN /\ sexc' = "ValueError"
                  /\ UNCHANGED <<spc, data_index>>
             ELSE \E a \in Mults(n), b \in Offsets(n) :
                     /\ data_index' = SampleRows([j \in 1..n |-> j - 1],
                                                 NumSampled, a, b)
                     /\ spc' = "split"
                     /\ sexc' = "none"
    /\ UNCHANGED <<train_index, test_index, subset_index>>

\* train_test_split(data): the rows are shuffled, the first TestSize of them
\* are the test partition and the rest the training partition.
Split ==
    /\ spc = "split" /\ sexc = "none"
    /\ \E a \in Mults(Len(data_index)), b \in Offsets(Len(data_index)) :
          LET n == Len(data_index)
          IN  /\ test_index'  = [j \in 1..TestSize(n) |->
                                     data_index[Shuffle(n, a, b, j)]]
              /\ train_index' = [j \in 1..TrainSize(n) |->
                                     data_index[Shuffle(n, a, b, TestSize(n) + j)]]
    /\ spc' = "sweep"
    /\ UNCHANGED <<sexc, data_index, subset_index>>

\* The sizes the loops may ask for next: the size of the last subset again
\* (the next repetition), the size after it, or the first size (the next length).
NextSizes ==
    IF subset_index = <<>>
       THEN {sizes[1]}
       ELSE LET k == CHOOSE j \in 1..Len(sizes) : sizes[j] = Len(subset_index)
            IN  {sizes[k], sizes[(k % Len(sizes)) + 1]}

\* subset = train_data.sample(s)
SampleSubset ==
    /\ spc = "sweep" /\ sexc = "none"
    /\ \E size \in NextSizes :
          IF size > Len(train_index)
             THEN /\ sexc' = "ValueError"
                  /\ UNCHANGED subset_index
             ELSE /\ \E a \in Mults(Len(train_index)),
                        b \in Offsets(Len(train_index)) :
                        subset_index' = SampleRows(train_index, size, a, b)
                  /\ sexc' = "none"
    /\ UNCHANGED <<spc, data_index, train_index, test_index>>

InitSplitVars ==
    /\ spc = "load"
    /\ sexc = "none"
    /\ data_index = <<>>
    /\ train_index = <<>>
    /\ test_index = <<>>
    /\ subset_index = <<>>

-----------------------------------------------------------------------------
(* The specifications *)

InitSweep == InitSweepVars /\ IdleCondVars /\ IdleFPVars /\ IdleSplitVars /\ InitFitVars

NextSweep ==
    \/ Start /\ UNCHANGED <<condVars, fpVars, splitVars, fitVars>>
    \/ SetParams /\ UNCHANGED <<condVars, fpVars, splitVars, fitVars>>
    \/ Sample /\ UNCHANGED <<condVars, fpVars, splitVars, fitVars>>
    \/ Fit /\ UNCHANGED <<condVars, fpVars, splitVars, fitVars>>
    \/ Predict /\ UNCHANGED <<condVars, fpVars, splitVars, fitVars>>
    \/ AppendResult /\ UNCHANGED <<condVars, fpVars, splitVars, fitVars>>
    \/ ToFrame /\ UNCHANGED <<condVars, fpVars, splitVars, fitVars>>

SpecSweep == InitSweep /\ [][NextSweep]_vars

InitCond == IdleSweepVars /\ InitCondVars /\ IdleFPVars /\ IdleSplitVars /\ InitFitVars

NextCond ==
    \/ ZeroStd /\ UNCHANGED <<sweepVars, fpVars, splitVars, fitVars>>
    \/ Drop /\ UNCHANGED <<sweepVars, fpVars, splitVars, fitVars>>
    \/ Coerce /\ UNCHANGED <<sweepVars, fpVars, splitVars, fitVars>>
    \/ AsFloat /\ UNCHANGED <<sweepVars, fpVars, splitVars, fitVars>>
    \/ MissingValues /\ UNCHANGED <<sweepVars, fpVars, splitVars, fitVars>>
    \/ Filter /\ UNCHANGED <<sweepVars, fpVars, splitVars, fitVars>>
    \/ Scale /\ UNCHANGED <<sweepVars, fpVars, splitVars>>
    \/ FitPCA /\ UNCHANGED <<sweepVars, fpVars, splitVars>>
    \/ RefitPCA /\ UNCHANGED <<sweepVars, fpVars, splitVars>>
    \/ FitLasso /\ UNCHANGED <<sweepVars, fpVars, splitVars>>
    \/ TrainTestSplit /\ UNCHANGED <<sweepVars, fpVars, splitVars>>
    \/ PipelineFit /\ UNCHANGED <<sweepVars, fpVars, splitVars>>
    \/ PipelinePredict /\ UNCHANGED <<sweepVars, fpVars, splitVars>>
    \/ FitPredict16 /\ UNCHANGED <<sweepVars, fpVars, splitVars>>
    \/ SetNComponents /\ UNCHANGED <<sweepVars, fpVars, splitVars>>
    \/ FitPredict8 /\ UNCHANGED <<sweepVars, fpVars, splitVars>>
    \/ ParityPlot /\ UNCHANGED <<sweepVars, fpVars, splitVars>>

SpecCond == InitCond /\ [][NextCond]_vars

InitFP == IdleSweepVars /\ IdleCondVars /\ InitFPVars /\ IdleSplitVars /\ InitFitVars

NextFP ==
    \/ Compute /\ UNCHANGED <<sweepVars, condVars, splitVars, fitVars>>
    \/ MolColumn /\ UNCHANGED <<sweepVars, condVars, splitVars, fitVars>>
    \/ SetLength /\ UNCHANGED <<sweepVars, condVars, splitVars, fitVars>>
    \/ MFit /\ UNCHANGED <<sweepVars, condVars, splitVars, fitVars>>
    \/ MTransform /\ UNCHANGED <<sweepVars, condVars, splitVars, fitVars>>

SpecFP == InitFP /\ [][NextFP]_vars

\* The cell runs on: one statement after the other, as long as one is left.
InitSplit == IdleSweepVars /\ IdleCondVars /\ IdleFPVars /\ InitSplitVars /\ InitFitVars

NextSplit ==
    \/ Load /\ UNCHANGED <<sweepVars, condVars, fpVars, fitVars>>
    \/ Split /\ UNCHANGED <<sweepVars, condVars, fpVars, fitVars>>
    \/ SampleSubset /\ UNCHANGED <<sweepVars, condVars, fpVars, fitVars>>

SpecSplit == InitSplit /\ [][NextSplit]_vars

SpecSweepFair == SpecSweep /\ WF_vars(NextSweep)

--------------------------------------------------------------------------
(* Section 3: the claims about the sweep *)

\* The (position of length, position of train_size, iteration) triple of a record
PosIn(seq, v) == CHOOSE k \in 1..Len(seq) : seq[k] = v
Triple(r) == <<PosIn(lengths, r.length), PosIn(sizes, r.train_size), r.iteration>>
LexLess(a, b) ==
    \/ a[1] < b[1]
    \/ a[1] = b[1] /\ a[2] < b[2]
    \/ a[1] = b[1] /\ a[2] = b[2] /\ a[3] < b[3]
Triples == (1..Len(lengths)) \X (1..Len(sizes)) \X (0..(Repetitions - 1))

\* C1: when no library call raises, the sweep runs to completion, and once
\* the loops are left results holds exactly 3 x 7 x 16 = 336 records; the
\* loops are left early only by an exception.
C1_SweepCount ==
    /\ [](pc \in {"to_frame", "done"} =>
            /\ Len(results) = Len(lengths) * Len(sizes) * Repetitions
            /\ Len(results) = 336
            /\ exc = "none")
    /\ [](pc = "aborted" => exc # "none")
    /\ <>(pc = "done" \/ exc # "none")

C1_Witness == pc = "done" /\ Len(results) = 336 /\ exc = "none"

\* C2: records are appended in loop order length -> train_size -> iteration:
\* each appended record has a triple greater than that of every record
\* before it, any two records of the finished sweep are in lexicographic
\* order of their triples, and every triple occurs exactly once.
C2_LoopOrder ==
    /\ [](pc = "done" =>
            /\ \A a, b \in 1..Len(results) :
                  a < b => LexLess(Triple(results[a]), Triple(results[b]))
            /\ \A t \in Triples :
                  Cardinality({k \in 1..Len(results) : Triple(results[k]) = t}) = 1)
    /\ [][results' # results =>
            /\ Len(results') = Len(results) + 1
            /\ \A k \in 1..Len(results) :
                  /\ results'[k] = results[k]
                  /\ LexLess(Triple(results[k]), Triple(results'[Len(results')]))]_vars

C2_Witness ==
    /\ pc = "done"
    /\ Triple(results[1]) = <<1, 1, 0>>
    /\ Triple(results[Len(results)]) = <<3, 7, 15>>

\* C3: a step of a run that raises stops the sweep at that run: the run is
\* not retried and no later run is executed (nothing changes any more), no
\* record is appended for the failed run, and the records before it stay.
C3_AbortOnRaise ==
    /\ [](exc # "none" =>
            /\ pc = "aborted"
            /\ Len(results) = RunIndex(li, si, i)
            /\ nDraws <= RunIndex(li, si, i) + 1)
    /\ [][exc = "none" /\ exc' # "none" => results' = results]_vars
    /\ [][exc # "none" => UNCHANGED sweepVars]_vars

C3_Witness == exc # "none" /\ pc = "aborted" /\ Len(results) > 0

\* C7: a run is sample, fit, predict, append, in this order; the prediction
\* scored in a run comes from the pipeline fit on the sample of that run and
\* is made on the test partition, which never changes; a run appends one
\* record and leaves the earlier records as they are.
C7_RunOrder ==
    /\ [](/\ nDraws >= nFits /\ nFits >= nPredicts /\ nPredicts >= Len(results)
          /\ nDraws <= Len(results) + 1
          /\ pc = "append" =>
                /\ subset.draw = nDraws /\ subset.n = s
                /\ knn.fitted /\ knn.draw = subset.draw /\ knn.n = subset.n
                /\ y_pred.model = "pipeline" /\ y_pred.draw = subset.draw
                /\ y_pred.X = "test_data"
          /\ \A k \in 1..Len(results) :
                /\ results[k].r2_score.y_pred.model = "pipeline"
                /\ results[k].r2_score.y_pred.draw = k
                /\ results[k].r2_score.y_pred.X = "test_data"
                /\ results[k].mae.y_pred = results[k].r2_score.y_pred)
    /\ [][/\ test_data' = test_data
          /\ results' # results =>
                /\ Len(results') = Len(results) + 1
                /\ SubSeq(results', 1, Len(results)) = results
                /\ nDraws' = Len(results')]_vars

C7_Witness == pc = "append" /\ Len(results) >= 2 /\ y_pred.draw = Len(results) + 1

\* C12: in every run the transformer of the pipeline has length l at the fit
\* and at the predict, the regressor is fit on s rows, and the record
\* appended holds that length and that number of rows; the radius of the
\* transformer is 4 throughout.
C12_RecordMatchesRun ==
    /\ fingerprint.radius = 4
    /\ fingerprint.radius = DefaultRadius
    /\ pc \in {"predict", "append"} =>
          /\ fingerprint.length = l
          /\ knn.length = l /\ knn.radius = DefaultRadius
          /\ knn.n = s /\ knn.n = subset.n
    /\ pc = "append" =>
          /\ y_pred.length = l /\ y_pred.length = knn.length
          /\ y_pred.n = s /\ y_pred.radius = DefaultRadius
    /\ \A k \in 1..Len(results) :
          /\ results[k].length = results[k].r2_score.y_pred.length
          /\ results[k].train_size = results[k].r2_score.y_pred.n
          /\ results[k].r2_score.y_pred.radius = DefaultRadius

C12_Witness ==
    /\ pc = "append" /\ l = 64 /\ s = 3000
    /\ knn.length = 64 /\ knn.n = 3000
    /\ Len(results) > Len(sizes) * Repetitions

--------------------------------------------------------------------------
(* Section 3: the claim about the partitions *)

RowsOf(index) == {index[j] : j \in 1..Len(index)}

\* C13: once the data is split, the training and the test partition share no
\* record and together are the 5000 records sampled; every size of the grid is
\* at most the size of the training partition, so that no train_data.sample(s)
\* raises; and every subset drawn holds records of the training partition
\* only, each at most once.
C13_PartitionsAndSubsets ==
    LET sampled == RowsOf(data_index)
        train   == RowsOf(train_index)
        test    == RowsOf(test_index)
        drawn   == RowsOf(subset_index)
    IN  spc = "sweep" =>
            /\ Len(data_index) = NumSampled
            /\ Cardinality(sampled) = NumSampled
            /\ Cardinality(train) = Len(train_index)
            /\ Cardinality(test) = Len(test_index)
            /\ train \cap test = {}
            /\ train \cup test = sampled
            /\ \A k \in 1..Len(sizes) : sizes[k] <= Len(train_index)
            /\ sexc = "none"
            /\ Cardinality(drawn) = Len(subset_index)
            /\ drawn \subseteq train
            /\ subset_index # <<>> =>
                   \E k \in 1..Len(sizes) : Len(subset_index) = sizes[k]

C13_Witness ==
    /\ spc = "sweep" /\ sexc = "none"
    /\ Len(subset_index) = sizes[Len(sizes)]
    /\ Len(train_index) = TrainSize(NumSampled)
    /\ subset_index # SubSeq(train_index, 1, Len(subset_index))

--------------------------------------------------------------------------
(* Sections 2 and 4: the claims about feature conditioning *)

Names(table) == {table[c].name : c \in 1..Len(table)}

\* A column of the raw table is constant: every entry is a number or a
\* boolean, and all entries are equal.
ZeroVariance(col) ==
    /\ \A r \in 1..NRows : col.vals[r].k \in {"num", "bool"}
    /\ \A q, r \in 1..NRows : col.vals[q].v = col.vals[r].v

HasMissing(col) == \E r \in 1..NRows : col.vals[r].k \in {"nan", "missing"}

\* C5: every column that is constant in the raw descriptor matrix is absent
\* from the matrix handed to the scaler of section 2, whatever its dtype.
C5_ConstantColumnsDropped ==
    (section = "descriptor" /\ cpc \in {"scale", "scaled"}) =>
        \A c \in 1..Len(raw) : ZeroVariance(raw[c]) => raw[c].name \notin Names(desc)

\* C6: once the coercion cell has run no entry is a non-numeric object any
\* more; once the filter cell has run no column holds a missing or
\* non-numeric entry, and the columns left are exactly those that were not
\* dropped as constant and had no missing or non-numeric entry.
C6_NoMissingAfterFilter ==
    /\ cpc \in {"missing", "filter", "scale", "scaled"} =>
          \A c \in 1..Len(desc) : \A r \in 1..NRows : desc[c].vals[r].k # "missing"
    /\ cpc \in {"scale", "scaled"} =>
          /\ \A c \in 1..Len(desc) : \A r \in 1..NRows :
                desc[c].vals[r].k \in {"num", "bool"}
          /\ Names(desc) = {raw[c].name : c \in {d \in 1..Len(raw) :
                                /\ raw[d].name \notin zero_std_cols
                                /\ ~HasMissing(raw[d])}}

C6_Witness ==
    /\ cpc = "scaled"
    /\ \E c \in 1..Len(raw) :
          /\ \E r \in 1..NRows : raw[c].vals[r].k = "missing"
          /\ raw[c].name \notin Names(desc)
          /\ raw[c].name \in missing_values

\* C10: after standardization every feature column has mean 0 and standard
\* deviation 1: with entry r of a column equal to num[r] / sqrt(den2), the
\* entries sum to 0 and their squares to n.
C10_Standardized ==
    cpc = "scaled" =>
        \A c \in 1..Len(feats) :
            LET num == feats[c].z.num
                sq  == [r \in 1..NRows |-> num[r] * num[r]]
            IN  /\ SumOver(num, NRows) = 0
                /\ SumOver(sq, NRows) = NRows * feats[c].z.den2

\* C11: the pipeline is fit on the rows of the training partition only, so
\* that no record of the test partition is among the rows its scaler, PCA and
\* LassoCV are fit on, and what it predicts for was never in its fit; the
\* standalone scaler, PCA and LassoCV are fit on all loaded records, those
\* later placed in the test partition included.
C11_PipelineFitOnTrainOnly ==
    /\ fits.model.fitted =>
          /\ fits.model.X = parts.train_desc
          /\ fits.model.y = parts.train_data
          /\ RowsOf(fits.model.X) \cap RowsOf(parts.test_desc) = {}
          /\ RowsOf(fits.model.y) \cap RowsOf(parts.test_data) = {}
    /\ \A k \in 1..Len(predicted) :
          /\ predicted[k].X = parts.test_desc
          /\ RowsOf(predicted[k].model.X) \cap RowsOf(predicted[k].X) = {}
    /\ fits.scaler.fitted => fits.scaler.X = DataIndex
    /\ fits.pca.fitted => fits.pca.X = DataIndex
    /\ fits.lasso.fitted => fits.lasso.X = DataIndex /\ fits.lasso.y = DataIndex
    /\ parts.test_desc # <<>> =>
          /\ RowsOf(parts.test_desc) \subseteq RowsOf(fits.scaler.X)
          /\ RowsOf(parts.test_desc) \subseteq RowsOf(fits.pca.X)
          /\ RowsOf(parts.test_desc) \subseteq RowsOf(fits.lasso.X)
          /\ RowsOf(parts.test_data) \subseteq RowsOf(fits.lasso.y)

C11_Witness ==
    /\ cpc = "done"
    /\ fits.model.fitted /\ fits.scaler.fitted /\ fits.pca.fitted /\ fits.lasso.fitted
    /\ Len(parts.test_desc) > 0 /\ Len(parts.train_desc) > 0
    /\ Len(predicted) = 2
    /\ parts.test_desc[1] # DataIndex[1]

\* The entry a conditioning step can have made of a raw entry.
Conditioned(e) == {e, ToNumeric(e), ToFloat(e)}

\* C14: conditioning removes columns only: the descriptor table keeps one row
\* per loaded record, in the order loaded, each column that is left holding
\* the (converted) raw entries of that column row by row; so the rows the
\* split puts in a partition of desc are the records it puts in that partition
\* of data, and every fit pairs the row of a record with the bandgap of that
\* same record.
C14_RowsPreserved ==
    /\ desc_index = DataIndex
    /\ \A c \in 1..Len(desc) :
          /\ DOMAIN desc[c].vals = 1..NRows
          /\ \E k \in 1..Len(raw) :
                /\ raw[k].name = desc[c].name
                /\ \A r \in 1..NRows : desc[c].vals[r] \in Conditioned(raw[k].vals[r])
    /\ \A c \in 1..Len(feats) : DOMAIN feats[c].z.num = 1..NRows
    /\ cpc # "ValueError"
    /\ parts.train_desc = parts.train_data
    /\ parts.test_desc = parts.test_data
    /\ Len(parts.train_desc) + Len(parts.test_desc) \in {0, NRows}
    /\ fits.model.fitted =>
          /\ fits.model.X = fits.model.y
          /\ Len(fits.model.X) = NRows - DescTestSize(NRows)
    /\ fits.lasso.fitted => fits.lasso.X = fits.lasso.y

C14_Witness ==
    /\ section = "descriptor" /\ cpc = "predict"
    /\ zero_std_cols = {} /\ missing_values = {}
    /\ Len(desc) = Len(raw) /\ Len(desc) > 0
    /\ fits.model.fitted
    /\ fits.model.X = fits.model.y
    /\ fits.model.X # SubSeq(DataIndex, 1, Len(fits.model.X))

\* C15: every r2_score call has the true bandgap as its first argument
\* (y_true) and the predictions as its second (y_pred): the calls kept in the
\* records of the sweep, and the calls of the parity plot.
C15_R2Arguments ==
    /\ \A k \in 1..Len(results) :
          /\ results[k].r2_score.y_true = "test_data.bandgap"
          /\ results[k].r2_score.y_pred.model = "pipeline"
    /\ r2.metric = "r2_score" =>
          /\ r2.y_true.kind = "bandgap"
          /\ r2.y_pred.kind \in {"8-ncomp-model", "16-ncomp-model"}

--------------------------------------------------------------------------
(* Section 3: the claims about fingerprints *)

\* C4: for a SMILES string that parses and any requested length,
\* compute_morgan_fingerprints returns a vector of exactly that many bits
\* (so the 1-element placeholder only when 1 bit was asked for).
C4_FingerprintLength ==
    (call.op = "compute" /\ ~MolFromSmiles(call.smiles).isNone) =>
        /\ ret.kind = "array"
        /\ Len(ret.val) = call.length
        /\ \A j \in 1..Len(ret.val) : ret.val[j] \in {0, 1}

C4_Witness ==
    /\ call.op = "compute" /\ call.smiles = "C" /\ call.length = 4 /\ call.radius = 2
    /\ ret.kind = "array" /\ Len(ret.val) = 4

\* C8: an unparsable SMILES string gives a null molecule without raising,
\* and feature extraction hands it on without raising, as a row of missing
\* values: in compute_morgan_fingerprints and in transform.
IsMissingRow(row) == \A j \in 1..Len(row) : row[j] \notin {0, 1}

C8_NullPropagatedSilently ==
    /\ call.op = "mol" => ret.kind = "array"
    /\ (call.op = "compute" /\ MolFromSmiles(call.smiles).isNone) =>
          ret.kind = "array" /\ IsMissingRow(ret.val)
    /\ (call.op = "transform" /\ Len(call.X) > 0) =>
          /\ ret.kind = "array"
          /\ \A j \in 1..Len(call.X) :
                MolFromSmiles(call.X[j]).isNone => IsMissingRow(ret.val[j])

\* C9: fit returns the transformer itself; fit and transform leave length
\* and radius as they are; what transform returns has one row per SMILES
\* string of X, in the order of X, row j being the fingerprint of X[j] at
\* the length and radius configured when it is called.
C9_StatelessTransformer ==
    /\ [](call.op = "fit" => ret.kind = "object" /\ ret.val = m.id)
    /\ []((call.op = "transform" /\ ret.kind = "array") =>
            /\ Len(ret.val) = Len(call.X)
            /\ \A j \in 1..Len(call.X) :
                  /\ Len(ret.val[j]) = m.length
                  /\ ret.val[j] =
                        GetMorganFingerprintAsBitVect(MolFromSmiles(call.X[j]),
                                                      m.radius, m.length))
    /\ [][call'.op \in {"fit", "transform"} => m' = m]_vars

C9_Witness ==
    /\ call.op = "transform" /\ call.X = <<"CCC", "C=O">>
    /\ ret.kind = "array" /\ Len(ret.val) = 2
    /\ ret.val[1] # ret.val[2]
    /\ m.length = 4

====
